---- MODULE Spec2Model ----
(***************************************************************************)
(* The memory-matching card games of the repository:                       *)
(*   memory_match.py  (src/.history/memory_match_20250919121842.py)        *)
(*   match.py         (src/.history/match_20250920093031.py)               *)
(* Both are Streamlit scripts: every user interaction re-runs the script   *)
(* top to bottom against st.session_state.  One action of this module is   *)
(* one script run (in match.py preceded by the on_click callback of the    *)
(* button that caused it); the wall clock advances between runs.           *)
(* The spelling game with penalty scoring,                                 *)
(*   mw.py            (src/.history/mw_20250917184115.py)                  *)
(* is a third script with a session state of its own (variable mw).        *)
(***************************************************************************)
EXTENDS Integers, Sequences, FiniteSets, TLC

VARIABLES
    script,   \* which script the session runs: "memory_match" or "match"
    ss,       \* st.session_state of the session
    clock,    \* time.time(), in ticks
    last,     \* what the latest step was (history)
    tally,    \* comparisons observed since the deck was dealt (history)
    mw,       \* st.session_state of a session of the spelling game mw.py
    mwlast    \* what the latest step of the spelling game was (history)

vars == <<script, ss, clock, last, tally, mw, mwlast>>

\* The variables of the card games, and those of the spelling game.
cardvars == <<script, ss, clock, last, tally>>
mwvars == <<mw, mwlast>>

----------------------------------------------------------------------------
(* Bounds of the model.                                                    *)

\* The clock stops at MaxTime; timestamps are only taken while they can
\* still expire.
MaxTime == 4
\* The mismatch delay (0.8 s in memory_match.py, 0.85 s in match.py) in ticks.
HideTicks == 2
\* The peek time (peek_seconds / 3 s) in ticks.
PeekTicks == 4
\* random.shuffle draws its random index in the first ShuffleSteps
\* iterations of its loop; the later iterations leave their entry in place.
ShuffleSteps == 1
\* The sets of pool positions (0-based) random.sample draws, lowest position
\* first.  ANIMALS holds the fox at positions 5 and 17.
SampleDraws == {{5, 6, 7}, {5, 6, 17}}

----------------------------------------------------------------------------
(* Sidebar settings and symbol pools.                                      *)

\* memory_match.py line 17 / match.py line 13: slider 3..8; the model deals
\* the smallest game the slider offers.
pairs == 3

theme == "Animals"

THEMES ==
    [t \in {"Animals", "Shapes & Colors", "Smiles"} |->
        CASE t = "Animals" ->
               << "dog", "cat", "mouse", "hamster", "rabbit", "fox", "bear",
                  "panda", "koala", "lion", "pig", "frog", "monkey", "cow",
                  "tiger", "giraffe" >>
          [] t = "Shapes & Colors" ->
               << "red_circle", "orange_circle", "yellow_circle",
                  "green_circle", "blue_circle", "purple_circle",
                  "brown_circle", "black_circle", "white_circle",
                  "red_square", "orange_square", "yellow_square",
                  "green_square", "blue_square", "purple_square",
                  "black_square" >>
          [] t = "Smiles" ->
               << "grinning", "smiley", "smile", "grin", "laughing", "blush",
                  "slight_smile", "wink", "sunglasses", "star_struck",
                  "partying", "hugging", "cowboy", "smiley_cat", "smile_cat",
                  "joy_cat" >>]

ANIMALS ==
    << "dog", "cat", "mouse", "hamster", "rabbit", "fox", "bear", "panda",
       "koala", "lion", "pig", "frog", "monkey", "cow", "tiger", "giraffe",
       "zebra", "fox", "raccoon", "kangaroo" >>

HIDDEN == "hidden"

----------------------------------------------------------------------------
(* Python helpers.                                                         *)

\* d[i] of a Python list: 0-based, negative indexes count from the end.
PyGet(d, i) ==
    IF 0 <= i /\ i < Len(d) THEN d[i + 1]
    ELSE IF -Len(d) <= i /\ i < 0 THEN d[Len(d) + i + 1]
    ELSE "IndexError"

\* x[i], x[j] = x[j], x[i]   (0-based)
Swap(x, i, j) == [x EXCEPT ![i + 1] = x[j + 1], ![j + 1] = x[i + 1]]

\* The members of the set of integers S, lowest first.
RECURSIVE Ascending(_)
Ascending(S) ==
    IF S = {} THEN <<>>
    ELSE LET m == CHOOSE x \in S : \A y \in S : x <= y
         IN  <<m>> \o Ascending(S \ {m})

\* random.sample(pool, k): the entries at k distinct positions of the pool;
\* ValueError (no result) when k exceeds the population.
random_sample(pool, k) ==
    {[n \in 1..k |-> pool[Ascending(P)[n] + 1]] :
        P \in {Q \in SampleDraws : Cardinality(Q) = k /\ \A q \in Q : q < Len(pool)}}

\* random.shuffle(x): for i in reversed(range(1, len(x))): j = randbelow(i+1);
\* swap x[i], x[j].
RECURSIVE ShuffleFrom(_, _)
ShuffleFrom(x, i) ==
    IF i < 1 THEN {x}
    ELSE UNION {ShuffleFrom(Swap(x, i, j), i - 1) :
                    j \in (IF Len(x) - 1 - i < ShuffleSteps THEN 0..i ELSE {i})}

random_shuffle(x) == ShuffleFrom(x, Len(x) - 1)

\* symbols = random.sample(pool, pairs); deck = symbols * 2; shuffle(deck)
Deal(pool, p) ==
    UNION {random_shuffle(symbols \o symbols) : symbols \in random_sample(pool, p)}

DecksMemoryMatch == Deal(THEMES[theme], pairs)
DecksMatch == Deal(ANIMALS, pairs)

----------------------------------------------------------------------------
(* st.session_state.                                                       *)

\* Keys of st.session_state.  hide_at and peek_until are the keys _hide_at
\* and _peek_until, read with .get(key, 0).  memory_match.py uses
\* pending_hide_at, match.py uses lock and _hide_at.  deck = <<>> stands for
\* match.py's initial [] and for memory_match.py's "deck" not in
\* st.session_state.  started_at (written by memory_match.py, never read) is
\* left out.
InitSessionState ==
    [deck |-> <<>>, revealed |-> {}, matched |-> {}, moves |-> 0,
     finished |-> FALSE, pending_hide_at |-> 0, lock |-> FALSE,
     hide_at |-> 0, peek_until |-> 0]

\* The positions the grid renders a button for.
Positions(s) == 0 .. (Len(s.deck) - 1)

\* i1, i2 = list(revealed); deck[i1] == deck[i2]
SameSymbol(s) ==
    LET i1 == CHOOSE x \in s.revealed : TRUE
        i2 == CHOOSE x \in s.revealed : x # i1
    IN  PyGet(s.deck, i1) = PyGet(s.deck, i2)

\* deck[i1] or deck[i2] raises IndexError
IndexError(s) == \E x \in s.revealed : PyGet(s.deck, x) = "IndexError"

----------------------------------------------------------------------------
(* memory_match.py                                                         *)

new_game_mm(s, d) ==
    [s EXCEPT !.deck = d, !.revealed = {}, !.matched = {}, !.moves = 0,
              !.pending_hide_at = 0, !.finished = FALSE]

\* Mutant: the peek turns the revealed cards face down.
do_peek_clears_revealed(s, seconds, now) ==
    [s EXCEPT !.peek_until = now + seconds, !.revealed = {}]

do_peek(s, seconds, now) == [s EXCEPT !.peek_until = now + seconds]

\* Mutant: the check waits until the deadline is strictly past.
pending_hide_check_late(s, now) ==
    IF s.pending_hide_at # 0 /\ now > s.pending_hide_at
    THEN [s EXCEPT !.revealed = {}, !.pending_hide_at = 0]
    ELSE s

\* if pending_hide and now >= pending_hide: ...
pending_hide_check(s, now) ==
    IF s.pending_hide_at # 0 /\ now >= s.pending_hide_at
    THEN [s EXCEPT !.revealed = {}, !.pending_hide_at = 0]
    ELSE s

\* Mutant: revealed.clear() is forgotten.
on_match_mm_keeps_revealed(s) ==
    LET m == s.matched \cup s.revealed
    IN  [s EXCEPT !.matched = m,
                  !.finished = IF Cardinality(m) = Len(s.deck) THEN TRUE ELSE @]

\* Mutant: the win test is off by one pair.
on_match_mm_finishes_early(s) ==
    LET m == s.matched \cup s.revealed
    IN  [s EXCEPT !.matched = m, !.revealed = {},
                  !.finished = IF Cardinality(m) >= Len(s.deck) - 2 THEN TRUE ELSE @]

\* matched.update(revealed); revealed.clear(); if len(matched) == len(deck): ...
on_match_mm(s) ==
    LET m == s.matched \cup s.revealed
    IN  [s EXCEPT !.matched = m, !.revealed = {},
                  !.finished = IF Cardinality(m) = Len(s.deck) THEN TRUE ELSE @]

on_mismatch_mm(s, t) == [s EXCEPT !.pending_hide_at = t + HideTicks]

\* Mutant: moves += 1 is forgotten.
check_pair_mm_no_count(s, t) ==
    IF Cardinality(s.revealed) = 2
    THEN IF IndexError(s) THEN s
         ELSE IF SameSymbol(s) THEN on_match_mm(s)
         ELSE on_mismatch_mm(s, t)
    ELSE s

\* if len(revealed) == 2: moves += 1; compare
check_pair_mm(s, t) ==
    IF Cardinality(s.revealed) = 2
    THEN LET s1 == [s EXCEPT !.moves = @ + 1]
         IN  IF IndexError(s1) THEN s1
             ELSE IF SameSymbol(s1) THEN on_match_mm(s1)
             ELSE on_mismatch_mm(s1, t)
    ELSE s

\* Mutant: taps are not ignored while a mismatch is showing.
on_card_click_mm_no_pending_check(s, i, t) ==
    IF i \in s.matched \/ i \in s.revealed \/ s.finished THEN s
    ELSE check_pair_mm([s EXCEPT !.revealed = @ \cup {i}], t)

on_card_click_mm(s, i, t) ==
    IF i \in s.matched \/ i \in s.revealed \/ s.finished THEN s
    ELSE IF s.pending_hide_at # 0 THEN s
    ELSE check_pair_mm([s EXCEPT !.revealed = @ \cup {i}], t)

\* Mutant: new_game() runs in every run.
BeforeHideMemoryMatch_always_deals(s, ev, d, now) ==
    LET s1 == new_game_mm(s, d)
    IN  IF ev = "peek" THEN do_peek(s1, PeekTicks, now) ELSE s1

\* The script down to the pending-hide check.  ev is the widget that caused
\* the run: "none" (a settings change, or the st.rerun() of the peek loop),
\* "new_game", "peek", "card" (the button at position i), "play_again"; d is
\* the deck new_game() deals if it runs.
BeforeHideMemoryMatch(s, ev, d, now) ==
    LET s1 == IF s.deck = <<>> \/ ev = "new_game" THEN new_game_mm(s, d) ELSE s
    IN  IF ev = "peek" THEN do_peek(s1, PeekTicks, now) ELSE s1

\* One run of memory_match.py.
RunMemoryMatch(s, ev, i, d, now) ==
    LET s3 == pending_hide_check(BeforeHideMemoryMatch(s, ev, d, now), now)
        s4 == IF ev = "card" /\ i \in Positions(s3)
              THEN on_card_click_mm(s3, i, now) ELSE s3
    IN  IF ev = "play_again" /\ s4.finished THEN new_game_mm(s4, d) ELSE s4

----------------------------------------------------------------------------
(* match.py                                                                *)

new_game_match(s, d) ==
    [s EXCEPT !.deck = d, !.revealed = {}, !.matched = {}, !.moves = 0,
              !.finished = FALSE, !.lock = FALSE]

\* Mutant: matched.update(revealed) is forgotten.
on_match_match_forgets_update(s) ==
    [s EXCEPT !.revealed = {},
              !.finished = IF Cardinality(s.matched) = Len(s.deck) THEN TRUE ELSE @]

on_match_match(s) ==
    LET m == s.matched \cup s.revealed
    IN  [s EXCEPT !.matched = m, !.revealed = {},
                  !.finished = IF Cardinality(m) = Len(s.deck) THEN TRUE ELSE @]

\* Mutant: the mismatch locks the cards but schedules no hide.
on_mismatch_match_no_schedule(s, t) == [s EXCEPT !.lock = TRUE]

on_mismatch_match(s, t) == [s EXCEPT !.lock = TRUE, !.hide_at = t + HideTicks]

\* Mutant: the comparison reads d[i1] == d[i1].
check_pair_match_self_compare(s, t) ==
    IF Cardinality(s.revealed) = 2
    THEN LET s1 == [s EXCEPT !.moves = @ + 1]
         IN  IF IndexError(s1) THEN s1 ELSE on_match_match(s1)
    ELSE s

check_pair_match(s, t) ==
    IF Cardinality(s.revealed) = 2
    THEN LET s1 == [s EXCEPT !.moves = @ + 1]
         IN  IF IndexError(s1) THEN s1
             ELSE IF SameSymbol(s1) THEN on_match_match(s1)
             ELSE on_mismatch_match(s1, t)
    ELSE s

\* Mutant: the lock is not consulted.
on_card_click_match_no_lock(s, i, t) ==
    IF i \in s.matched \/ i \in s.revealed \/ s.finished THEN s
    ELSE check_pair_match([s EXCEPT !.revealed = @ \cup {i}], t)

\* Mutant: a tap on a matched card is not ignored.
on_card_click_match_flips_matched(s, i, t) ==
    IF s.lock THEN s
    ELSE IF i \in s.revealed \/ s.finished THEN s
    ELSE check_pair_match([s EXCEPT !.revealed = @ \cup {i}], t)

on_card_click_match(s, i, t) ==
    IF s.lock THEN s
    ELSE IF i \in s.matched \/ i \in s.revealed \/ s.finished THEN s
    ELSE check_pair_match([s EXCEPT !.revealed = @ \cup {i}], t)

\* Mutant: the hide turns the matched cards down as well.
scheduled_hide_clears_matched(s, now) ==
    IF s.hide_at # 0 /\ now >= s.hide_at
    THEN [s EXCEPT !.revealed = {}, !.matched = {}, !.lock = FALSE, !.hide_at = 0]
    ELSE s

\* Mutant: the hide forgets to release the lock.
scheduled_hide_keeps_lock(s, now) ==
    IF s.hide_at # 0 /\ now >= s.hide_at
    THEN [s EXCEPT !.revealed = {}, !.hide_at = 0]
    ELSE s

\* hide_at = st.session_state.get("_hide_at", 0); if hide_at: ...
scheduled_hide(s, now) ==
    IF s.hide_at # 0 /\ now >= s.hide_at
    THEN [s EXCEPT !.revealed = {}, !.lock = FALSE, !.hide_at = 0]
    ELSE s

\* The on_click callback of the pressed card, then the script down to the
\* scheduled hide.
BeforeHideMatch(s, ev, i, d, now) ==
    LET s1 == IF ev = "card" /\ i \in Positions(s)
              THEN on_card_click_match(s, i, now) ELSE s
        s2 == IF ev = "new_game" \/ s1.deck = <<>> THEN new_game_match(s1, d) ELSE s1
    IN  IF ev = "peek" THEN [s2 EXCEPT !.peek_until = now + PeekTicks] ELSE s2

\* One run of match.py.
RunMatch(s, ev, i, d, now) == scheduled_hide(BeforeHideMatch(s, ev, i, d, now), now)

----------------------------------------------------------------------------
(* The session.                                                            *)

Scripts == {"memory_match", "match"}

Run(s, ev, i, d, now) ==
    IF script = "memory_match" THEN RunMemoryMatch(s, ev, i, d, now)
    ELSE RunMatch(s, ev, i, d, now)

Decks == IF script = "memory_match" THEN DecksMemoryMatch ELSE DecksMatch

NoDeck == <<>>

\* on_card_click of the running script.
on_card_click(s, i, t) ==
    IF script = "memory_match" THEN on_card_click_mm(s, i, t)
    ELSE on_card_click_match(s, i, t)

\* The session state on_card_click(i) finds in a run a card button caused:
\* memory_match.py has run its pending-hide check by then, match.py calls
\* the callback before the script body.
BeforeClick(s, now) ==
    IF script = "memory_match" THEN pending_hide_check(s, now) ELSE s

\* The hide check of the running script, run at time now.
HideCheck(s, now) ==
    IF script = "memory_match" THEN pending_hide_check(s, now)
    ELSE scheduled_hide(s, now)

\* Whether on_card_click accepts a flip of some face-down card.
CanFlip(s, now) ==
    \E j \in Positions(s) \ (s.matched \cup s.revealed) :
        on_card_click(s, j, now) # s

\* History: whether on_card_click(i) changes the session state in the run.
Accepted(s, i, now) ==
    on_card_click(BeforeClick(s, now), i, now) # BeforeClick(s, now)

\* History: how on_card_click(i) finds position i.
Was(s, i, now) ==
    IF i \in BeforeClick(s, now).matched THEN "matched"
    ELSE IF i \in BeforeClick(s, now).revealed THEN "revealed"
    ELSE "hidden"

\* History: whether the run's hide check clears a deadline.
HideFires(s, ev, i, d, now) ==
    IF script = "memory_match"
    THEN LET b == BeforeHideMemoryMatch(s, ev, d, now)
         IN  pending_hide_check(b, now) # b
    ELSE LET b == BeforeHideMatch(s, ev, i, d, now)
         IN  scheduled_hide(b, now) # b

\* History: the comparisons seen from one session state to the next.  A
\* match is seen when matched grows, a mismatch when revealed reaches two
\* positions; a newly dealt deck starts the count again.
Observe(s, t, dealt) ==
    IF dealt THEN [matches |-> 0, mismatches |-> 0]
    ELSE IF t.matched # s.matched
    THEN [tally EXCEPT !.matches = @ + 1]
    ELSE IF Cardinality(t.revealed) = 2 /\ t.revealed # s.revealed
    THEN [tally EXCEPT !.mismatches = @ + 1]
    ELSE tally

\* The card games run no session of the spelling game.
NoSession == [words |-> <<>>]
NoSubmission == [ev |-> "-"]

\* peeking = now < peek_until
peeking(s, now) == now < s.peek_until

\* Mutant: a matched card is drawn face down.
card_face_forgets_matched(s, i, now) ==
    IF peeking(s, now) \/ i \in s.revealed
    THEN PyGet(s.deck, i) ELSE HIDDEN

\* memory_match.py: the label of the button at position i.
card_face(s, i, now) ==
    IF peeking(s, now) \/ i \in s.revealed \/ i \in s.matched
    THEN PyGet(s.deck, i) ELSE HIDDEN

\* match.py
is_face_up(s, i, now) == peeking(s, now) \/ i \in s.revealed \/ i \in s.matched

\* match.py: face = deck[idx] if is_face_up(idx) else the question mark
face(s, i, now) == IF is_face_up(s, i, now) THEN PyGet(s.deck, i) ELSE HIDDEN

\* The label the running script gives the button at position i.
visible_face(s, i, now) ==
    IF script = "memory_match" THEN card_face(s, i, now) ELSE face(s, i, now)

Init ==
    /\ script \in Scripts
    /\ ss = InitSessionState
    /\ clock = 0
    /\ last = [ev |-> "init", was |-> "-", acc |-> FALSE, hid |-> FALSE]
    /\ tally = [matches |-> 0, mismatches |-> 0]
    /\ mw = NoSession
    /\ mwlast = NoSubmission

\* A run of the script caused by widget ev (position i, deck d).
Step(ev, i, d) ==
    /\ ss' = Run(ss, ev, i, d, clock)
    /\ last' = [ev |-> ev,
                was |-> IF ev = "card" THEN Was(ss, i, clock) ELSE "-",
                acc |-> (ev = "card" /\ Accepted(ss, i, clock)),
                hid |-> HideFires(ss, ev, i, d, clock)]
    /\ tally' = Observe(ss, ss', d # NoDeck)
    /\ UNCHANGED <<script, clock, mw, mwlast>>

\* The very first run, and every run no button caused.
Rerun ==
    \E d \in (IF ss.deck = <<>> THEN Decks ELSE {NoDeck}) : Step("none", -1, d)

NewGameClick ==
    /\ ss.deck # <<>>
    /\ \E d \in Decks : Step("new_game", -1, d)

PeekClick ==
    /\ ss.deck # <<>>
    /\ clock + PeekTicks <= MaxTime
    /\ Step("peek", -1, NoDeck)

CardClick ==
    /\ clock + HideTicks <= MaxTime
    /\ \E i \in Positions(ss) : Step("card", i, NoDeck)

\* memory_match.py renders "Play again" only while finished.
PlayAgainClick ==
    /\ script = "memory_match"
    /\ ss.finished
    /\ \E d \in Decks : Step("play_again", -1, d)

AdvanceClock ==
    /\ clock < MaxTime
    /\ clock' = clock + 1
    /\ last' = [ev |-> "time", was |-> "-", acc |-> FALSE, hid |-> FALSE]
    /\ UNCHANGED <<script, ss, tally, mw, mwlast>>

Next ==
    \/ Rerun
    \/ NewGameClick
    \/ PeekClick
    \/ CardClick
    \/ PlayAgainClick
    \/ AdvanceClock

Spec == Init /\ [][Next]_vars

\* match.py on its own.  While _hide_at is set the script ends every run
\* with time.sleep(0.05); st.rerun() (lines 226-229), so it keeps running
\* without user input, and time passes.
InitMatch == Init /\ script = "match"

HideLoop == ss.hide_at # 0 /\ Rerun

NextMatch ==
    \/ Rerun
    \/ NewGameClick
    \/ PeekClick
    \/ CardClick
    \/ AdvanceClock

SpecMatchLive ==
    InitMatch /\ [][NextMatch]_vars /\ WF_vars(AdvanceClock) /\ WF_vars(HideLoop)

\* The positions next to the deck's range: one that Python's negative
\* indexing still resolves, and the first one past the end.
StrayPositions(s) == {-1, Len(s.deck)}

\* on_card_click(i) called on its own with a position the grid has no
\* button for.  An IndexError leaves the writes made before it.
StrayFlip ==
    /\ ss.deck # <<>>
    /\ clock + HideTicks <= MaxTime
    /\ \E i \in StrayPositions(ss) :
          /\ ss' = on_card_click(ss, i, clock)
          /\ last' = [ev |-> "stray",
                      was |-> IF Cardinality(ss'.revealed) = 2 /\ IndexError(ss')
                              THEN "IndexError" ELSE "-",
                      acc |-> (ss' # ss), hid |-> FALSE]
    /\ tally' = Observe(ss, ss', FALSE)
    /\ UNCHANGED <<script, clock, mw, mwlast>>

\* One round played through card buttons and stray calls.
NextFlip ==
    \/ Rerun
    \/ CardClick
    \/ StrayFlip
    \/ AdvanceClock

SpecFlip == Init /\ [][NextFlip]_vars

----------------------------------------------------------------------------
(* mw.py, the spelling game with penalty scoring                           *)
(* (src/.history/mw_20250917184115.py).                                    *)

\* listen_nonce counts up with every Load list, Restart and submission; the
\* model stops pressing buttons at MaxNonce.
MaxNonce == 5

DEFAULT_WORDS ==
    << "fit", "him", "is", "it", "pin", "sip", "an", "cat", "nap", "pan",
       "and", "find", "for", "just", "many", "one", "she", "then" >>

\* str.strip() and str.lower() on the strings the model types.
Strip(s) ==
    CASE s = " an" -> "an"
      [] s = "cat " -> "cat"
      [] s = " " -> ""
      [] OTHER -> s

Lower(s) ==
    CASE s = "AN" -> "an"
      [] s = "Cat" -> "cat"
      [] s = "Fit" -> "fit"
      [] OTHER -> s

\* The texts pasted into the sidebar, as raw.replace(",", "\n").splitlines().
RawTexts ==
    { <<>>, <<" ">>, <<"an">>, <<" an", "", "cat ">>, <<"Cat", "an">>,
      <<"an", "an">>, <<"cat", "an", "fit">> }

\* The texts typed into "Your spelling".
Guesses == {"", "an", " an", "AN", "cat", "Cat", "fit", "Fit", "him"}

\* parts = [p.strip() for p in ...]; return [p for p in parts if p]
parse_words(raw) ==
    SelectSeq([n \in 1..Len(raw) |-> Strip(raw[n])], LAMBDA part : part # "")

\* The sidebar checkbox "Auto play each word", at its default.
auto_play == TRUE

init_state ==
    [words |-> DEFAULT_WORDS, idx |-> 0, attempted_penalty |-> FALSE,
     total_points |-> Len(DEFAULT_WORDS), current_points |-> Len(DEFAULT_WORDS),
     listen_nonce |-> 0, last_feedback |-> "", last_spoken_idx |-> -1,
     retry_speak |-> FALSE]

\* if col_a.button("Load list"): ...
load_list(s, raw) ==
    [s EXCEPT !.words = parse_words(raw), !.idx = 0,
              !.total_points = Len(parse_words(raw)),
              !.current_points = Len(parse_words(raw)),
              !.attempted_penalty = FALSE, !.last_feedback = "",
              !.last_spoken_idx = -1, !.retry_speak = FALSE,
              !.listen_nonce = @ + 1]

\* if col_b.button("Restart"): ...
restart(s) ==
    [s EXCEPT !.idx = 0, !.current_points = s.total_points,
              !.attempted_penalty = FALSE, !.last_feedback = "",
              !.last_spoken_idx = -1, !.retry_speak = FALSE,
              !.listen_nonce = @ + 1]

Min(a, b) == IF a <= b THEN a ELSE b
Max(a, b) == IF a >= b THEN a ELSE b

\* if submitted: ...   (start_points is total_points as read at line 276)
check_submission(s, word, guess) ==
    IF Lower(Strip(guess)) = Lower(word)
    THEN [s EXCEPT !.current_points =
                       IF s.attempted_penalty
                       THEN Min(s.total_points, s.current_points + 1) ELSE @,
                   !.attempted_penalty = FALSE,
                   !.last_feedback = "right",
                   !.retry_speak = FALSE,
                   !.idx = @ + 1,
                   !.listen_nonce = @ + 1]
    ELSE [s EXCEPT !.current_points =
                       IF ~s.attempted_penalty THEN Max(0, s.current_points - 1) ELSE @,
                   !.attempted_penalty = TRUE,
                   !.last_feedback = "not yet",
                   !.retry_speak = TRUE,
                   !.listen_nonce = @ + 1]

\* Whether the name word is bound when line 281 reads it: its first
\* assignment, word = wds[idx], is line 290.
WordBound == FALSE

\* One run of mw.py.  ev is the widget that caused the run: "none", "load"
\* (with the text raw), "restart", "submit" (with the text guess).  Line 281,
\* p_preview = find_local_audio_for_word(word) if idx < N else None, raises
\* NameError when idx < N; st.stop() ends the run when idx >= N.  Either way
\* the run ends before the form of lines 317-319 and the handler below it.
RunMW(s, ev, raw, guess) ==
    LET s1 == IF ev = "load" THEN load_list(s, raw)
              ELSE IF ev = "restart" THEN restart(s) ELSE s
        N == Len(s1.words)
        idx == s1.idx
    IN  IF idx < N /\ ~WordBound THEN s1
        ELSE IF idx >= N THEN s1
        ELSE LET word == s1.words[idx + 1]
                 s2 == IF auto_play /\ s1.last_spoken_idx # idx
                       THEN [s1 EXCEPT !.last_spoken_idx = idx] ELSE s1
                 s3 == IF ev = "submit" THEN check_submission(s2, word, guess) ELSE s2
             IN  IF s3.retry_speak /\ idx < N
                 THEN [s3 EXCEPT !.retry_speak = FALSE] ELSE s3

\* History: whether guess spells the current word of s.
IsRight(s, guess) ==
    s.idx < Len(s.words) /\ Lower(Strip(guess)) = Lower(s.words[s.idx + 1])

InitMW ==
    /\ script = "mw"
    /\ ss = InitSessionState
    /\ clock = 0
    /\ last = [ev |-> "init", was |-> "-", acc |-> FALSE, hid |-> FALSE]
    /\ tally = [matches |-> 0, mismatches |-> 0]
    /\ mw = init_state
    /\ mwlast = [ev |-> "init", right |-> FALSE]

StepMW(ev, raw, guess) ==
    /\ mw' = RunMW(mw, ev, raw, guess)
    /\ mwlast' = [ev |-> ev, right |-> (ev = "submit" /\ IsRight(mw, guess))]
    /\ UNCHANGED cardvars

\* A run no button of the game caused (a sidebar setting changed).
RerunMW == \E raw \in {<<>>} : StepMW("none", raw, "")

LoadList ==
    /\ mw.listen_nonce < MaxNonce
    /\ \E raw \in RawTexts : StepMW("load", raw, "")

Restart ==
    /\ mw.listen_nonce < MaxNonce
    /\ StepMW("restart", <<>>, "")

\* A press of "Check" with the text guess in the box.
Submit ==
    /\ mw.listen_nonce < MaxNonce
    /\ \E guess \in Guesses : StepMW("submit", <<>>, guess)

NextMW ==
    \/ RerunMW
    \/ LoadList
    \/ Restart
    \/ Submit

SpecMW == InitMW /\ [][NextMW]_vars

----------------------------------------------------------------------------
(* mw.py, the spelling game in its simplified mode                         *)
(* (src/.history/mw_20250924194103.py).  The session is the variable mw;   *)
(* the fields that only steer audio playback (auto_play, last_spoken_idx,  *)
(* suppress_autoplay_once, _retry_speak, pending_feedback) are left out:   *)
(* no line that reads them writes a field kept here.                       *)

DEFAULT_WORDS_SIMPLE ==
    << "big", "did", "dig", "in", "pig", "sit", "fit", "it", "pin", "sip",
       "are", "buy", "little", "said", "too", "up", "will", "you" >>

\* ''.join(unicodedata.normalize("NFKC", s).split()): all whitespace removed
\* (NFKC leaves the ASCII strings of the model as they are).
Unspace(s) ==
    CASE s = " an" -> "an"
      [] s = "cat " -> "cat"
      [] s = "c at" -> "cat"
      [] s = " " -> ""
      [] OTHER -> s

\* The canonical form the handler compares: whitespace removed, lower case.
Canon(s) == Lower(Unspace(s))

\* The texts typed into "Your spelling".
GuessesSimple == {"", "an", " an", "AN", "c at", "cat", "him"}

\* The files put into the uploader, each as the tokens
\* re.split(r"[^A-Za-z']+", text) yields; "" stands for no file.
NoFile == ""
Files == {"a.txt", "b.txt", "c.txt"}
Tokens(f) ==
    CASE f = "a.txt" -> << "Cat", "an", "cat", "" >>
      [] f = "b.txt" -> << "don't", "hippopotamus", "" >>
      [] OTHER -> << "an" >>

\* str.isalpha() and len() on the tokens of the files.
IsAlpha(w) == w \notin {"", "don't"}
StrLen(w) ==
    CASE w = "" -> 0
      [] w = "an" -> 2
      [] w = "cat" -> 3
      [] w = "don't" -> 5
      [] w = "hippopotamus" -> 12
      [] OTHER -> 3

\* w = t.strip().lower(); kept if w.isalpha() and 1 <= len(w) <= 12
parse_text_to_words(tokens) ==
    SelectSeq([n \in 1..Len(tokens) |-> Lower(tokens[n])],
              LAMBDA w : w # "" /\ IsAlpha(w) /\ 1 <= StrLen(w) /\ StrLen(w) <= 12)

\* Dedupe while preserving order; keep words of 1..10 letters.
RECURSIVE Cleaned(_, _)
Cleaned(ws, seen) ==
    IF ws = <<>> THEN <<>>
    ELSE LET w == Head(ws)
         IN  IF 1 <= StrLen(w) /\ StrLen(w) <= 10 /\ IsAlpha(w) /\ w \notin seen
             THEN <<w>> \o Cleaned(Tail(ws), seen \cup {w})
             ELSE Cleaned(Tail(ws), seen)

\* key = (name, len(raw_bytes)): one key per file of the model.
UploadKey(f) == f

\* The session after init_state() on an empty session_state.  uploaded is
\* the file the uploader widget holds; page is what the last run drew
\* ("none" before the first run, "form" with the form of line 966, "done"
\* with the end-of-list summary) and form_nonce the nonce in that form's key.
init_state_simple ==
    [words |-> DEFAULT_WORDS_SIMPLE, idx |-> 0, attempted_penalty |-> FALSE,
     total_points |-> Len(DEFAULT_WORDS_SIMPLE), current_points |-> 0,
     listen_nonce |-> 0, last_feedback |-> "", last_upload_key |-> NoFile,
     uploaded |-> NoFile, page |-> "none", form_nonce |-> -1]

\* Mutant: Load list keeps the old total_points.
load_list_simple_keeps_total(s, raw) ==
    [s EXCEPT !.words = parse_words(raw), !.idx = 0,
              !.current_points = 0, !.attempted_penalty = FALSE,
              !.last_feedback = "", !.listen_nonce = @ + 1]

\* if col_a.button("Load list"): ...
load_list_simple(s, raw) ==
    [s EXCEPT !.words = parse_words(raw), !.idx = 0,
              !.total_points = Len(parse_words(raw)),
              !.current_points = 0, !.attempted_penalty = FALSE,
              !.last_feedback = "", !.listen_nonce = @ + 1]

\* if col_b.button("Restart"): ...
restart_simple(s) ==
    [s EXCEPT !.idx = 0, !.current_points = 0, !.attempted_penalty = FALSE,
              !.last_feedback = "", !.listen_nonce = @ + 1]

\* if col_c.button("Clear & Load"): session_state.clear(); init_state(); ...
\* The uploader has no key in session_state; whether it still reports its
\* file in the rerun that follows is left open (keep).
clear_and_load(s, raw, keep) ==
    [init_state_simple EXCEPT
        !.words = parse_words(raw), !.idx = 0,
        !.total_points = Len(parse_words(raw)), !.current_points = 0,
        !.last_upload_key = NoFile, !.last_feedback = "",
        !.listen_nonce = @ + 1,
        !.uploaded = IF keep THEN s.uploaded ELSE NoFile,
        !.page = s.page, !.form_nonce = s.form_nonce]

\* if cleaned: ...   (lines 672-684)
load_upload(s, cleaned, key) ==
    [s EXCEPT !.words = cleaned, !.idx = 0, !.total_points = Len(cleaned),
              !.current_points = 0, !.last_feedback = "",
              !.listen_nonce = @ + 1, !.last_upload_key = key]

\* Mutant: the list starts again and the points stay.
try_again_keeps_points(s) ==
    [s EXCEPT !.idx = 0, !.last_feedback = "", !.listen_nonce = @ + 1]

\* if col_r1.button("Try the list again"): ...
try_again(s) ==
    [s EXCEPT !.idx = 0, !.current_points = 0, !.last_feedback = "",
              !.listen_nonce = @ + 1]

\* if submitted: ...   (lines 970-1003)
check_submission_simple(s, word, guess) ==
    LET s1 == IF Canon(guess) = Canon(word)
              THEN [s EXCEPT !.current_points = @ + 1, !.last_feedback = "right"]
              ELSE [s EXCEPT !.last_feedback = "wrong"]
    IN  [s1 EXCEPT !.idx = @ + 1, !.listen_nonce = @ + 1]

\* Lines 747-1003 of one run: the state read, the end-of-list summary with
\* st.stop(), the form and the submit handler.  A button or form answers
\* True only in a run that draws it again under the same key, so "Try the
\* list again" counts only if the page before showed the summary, and
\* "Check" only if it showed the form with the nonce of this run.  The
\* result carries whether the submit handler ran (proc).
Main(s, ev, guess) ==
    LET N == Len(s.words)
        idx == s.idx
    IN  IF idx >= N
        THEN [s |-> [(IF ev = "try_again" /\ s.page = "done"
                      THEN try_again(s) ELSE s) EXCEPT !.page = "done"],
              proc |-> FALSE]
        ELSE LET word == s.words[idx + 1]
                 submitted == /\ ev = "submit"
                              /\ s.page = "form"
                              /\ s.form_nonce = s.listen_nonce
                 drawn == [s EXCEPT !.page = "form", !.form_nonce = s.listen_nonce]
             IN  [s |-> IF submitted
                        THEN check_submission_simple(drawn, word, guess) ELSE drawn,
                  proc |-> submitted]

\* if uploaded is not None: ...   (lines 615-686).  A new file with words
\* in it is loaded and st.rerun() starts the script again, with no button
\* pressed and the file's key now known.
AfterButtons(s, ev, guess) ==
    LET cleaned == Cleaned(parse_text_to_words(Tokens(s.uploaded)), {})
    IN  IF /\ s.uploaded # NoFile
           /\ s.last_upload_key # UploadKey(s.uploaded)
           /\ cleaned # <<>>
        THEN Main(load_upload(s, cleaned, UploadKey(s.uploaded)), "none", "")
        ELSE Main(s, ev, guess)

\* One run of the script together with the rerun it may ask for.  ev is
\* the widget that caused it: "none", "load", "restart", "clear" (with the
\* text raw of the text area), "upload" (file f put into, or taken out of,
\* the uploader), "try_again", "submit" (with the text guess).
RunSimple(s, ev, raw, guess, f, keep) ==
    IF ev = "load" THEN AfterButtons(load_list_simple(s, raw), "none", "")
    ELSE IF ev = "restart" THEN AfterButtons(restart_simple(s), "none", "")
    ELSE IF ev = "clear" THEN AfterButtons(clear_and_load(s, raw, keep), "none", "")
    ELSE IF ev = "upload" THEN AfterButtons([s EXCEPT !.uploaded = f], "none", "")
    ELSE AfterButtons(s, ev, guess)

\* History: whether guess spells the current word of s.
IsRightSimple(s, guess) ==
    s.idx < Len(s.words) /\ Canon(guess) = Canon(s.words[s.idx + 1])

InitSimple ==
    /\ script = "mw_simple"
    /\ ss = InitSessionState
    /\ clock = 0
    /\ last = [ev |-> "init", was |-> "-", acc |-> FALSE, hid |-> FALSE]
    /\ tally = [matches |-> 0, mismatches |-> 0]
    /\ mw = init_state_simple
    /\ mwlast = [ev |-> "init", right |-> FALSE, proc |-> FALSE]

StepSimple(ev, raw, guess, f, keep) ==
    /\ mw' = RunSimple(mw, ev, raw, guess, f, keep).s
    /\ mwlast' = [ev |-> ev,
                  right |-> (ev = "submit" /\ IsRightSimple(mw, guess)),
                  proc |-> RunSimple(mw, ev, raw, guess, f, keep).proc]
    /\ UNCHANGED cardvars

\* The first run, and every run no button of the game caused.
RerunSimple == \E raw \in {<<>>} : StepSimple("none", raw, "", NoFile, FALSE)

LoadListSimple ==
    /\ mw.page # "none"
    /\ mw.listen_nonce < MaxNonce
    /\ \E raw \in RawTexts : StepSimple("load", raw, "", NoFile, FALSE)

RestartSimple ==
    /\ mw.page # "none"
    /\ mw.listen_nonce < MaxNonce
    /\ StepSimple("restart", <<>>, "", NoFile, FALSE)

ClearAndLoad ==
    /\ mw.page # "none"
    /\ \E raw \in RawTexts, keep \in BOOLEAN :
          StepSimple("clear", raw, "", NoFile, keep)

\* A file is put into the uploader, or the one in it is taken out.
Upload ==
    /\ mw.page # "none"
    /\ mw.listen_nonce < MaxNonce
    /\ \E f \in (Files \cup {NoFile}) \ {mw.uploaded} :
          StepSimple("upload", <<>>, "", f, FALSE)

\* A press of "Try the list again" on the end-of-list summary.
TryAgain ==
    /\ mw.page = "done"
    /\ mw.listen_nonce < MaxNonce
    /\ StepSimple("try_again", <<>>, "", NoFile, FALSE)

\* A press of "Check" on the form the page shows, with the text guess.
SubmitSimple ==
    /\ mw.page = "form"
    /\ mw.listen_nonce < MaxNonce
    /\ \E guess \in GuessesSimple : StepSimple("submit", <<>>, guess, NoFile, FALSE)

NextSimple ==
    \/ RerunSimple
    \/ LoadListSimple
    \/ RestartSimple
    \/ ClearAndLoad
    \/ Upload
    \/ TryAgain
    \/ SubmitSimple

SpecSimple == InitSimple /\ [][NextSimple]_vars

----------------------------------------------------------------------------
(* main.py, the spelling game with a word queue: the version with Hangman  *)
(* (src/.history/main_20250917160326.py) and the version with Jupiter      *)
(* Points (src/.history/main_20250917173112.py).  The session is the       *)
(* variable mw.  Hint, teacher view and the speech settings are left out.  *)

\* wins and rounds only count up; the model stops at MaxRounds attempts.
MaxRounds == 3

\* The model deals at most MaxDealt words from one filling of the queue.
MaxDealt == 3

\* Python's None, for current and _repeat_word.
NONE == "None"

\* default_list, split into lines.
default_list ==
    << "fit", "him", "is", "it", "pin", "sip", "an", "cat", "nap", "pan",
       "and", "find", "for", "just", "many", "one", "she", "then" >>

\* The texts pasted into the sidebar, as raw.replace(",", "\n").splitlines().
RawTextsMain ==
    { <<>>, <<"an">>, <<"Cat", " an">>, <<"it", "c3", "an">>, <<"an", "an">>,
      <<"a-t">> }

\* all(ch.isalpha() or ch in "-" for ch in p)
IsWord(p) == p # "c3"

\* parts = [p.strip() ...]; words = [p.lower() for p in parts if p and ...]
parse_words_main(raw) ==
    LET parts == [n \in 1..Len(raw) |-> Strip(raw[n])]
        kept == SelectSeq(parts, LAMBDA part : part # "" /\ IsWord(part))
    IN  [n \in 1..Len(kept) |-> Lower(kept[n])]

\* The characters of a word.
Chars(w) ==
    CASE w = "fit" -> {"f", "i", "t"}
      [] w = "him" -> {"h", "i", "m"}
      [] w = "is" -> {"i", "s"}
      [] w = "it" -> {"i", "t"}
      [] w = "pin" -> {"p", "i", "n"}
      [] w = "sip" -> {"s", "i", "p"}
      [] w = "an" -> {"a", "n"}
      [] w = "cat" -> {"c", "a", "t"}
      [] w = "nap" -> {"n", "a", "p"}
      [] w = "pan" -> {"p", "a", "n"}
      [] w = "and" -> {"a", "n", "d"}
      [] w = "find" -> {"f", "i", "n", "d"}
      [] w = "for" -> {"f", "o", "r"}
      [] w = "just" -> {"j", "u", "s", "t"}
      [] w = "many" -> {"m", "a", "n", "y"}
      [] w = "one" -> {"o", "n", "e"}
      [] w = "she" -> {"s", "h", "e"}
      [] w = "then" -> {"t", "h", "e", "n"}
      [] w = "a-t" -> {"a", "-", "t"}
      [] OTHER -> {}

\* The entries of a list.
Entries(q) == {q[n] : n \in 1..Len(q)}

\* def reset_round(): ...
reset_round(s) ==
    [s EXCEPT !.guesses = {}, !.lives = s.lives_setting, !.current = NONE]

\* Mutant: the word dealt stays at the end of the queue.
next_word_keeps_popped(s) ==
    LET filled == IF s.queue = <<>>
                  THEN {[s EXCEPT !.queue = q, !.dealt = <<>>] :
                            q \in random_shuffle(s.words)}
                  ELSE {s}
    IN  {IF f.queue # <<>>
         THEN [f EXCEPT !.current = f.queue[Len(f.queue)],
                        !.dealt = Append(@, f.queue[Len(f.queue)])]
         ELSE [f EXCEPT !.current = NONE] : f \in filled}

\* def next_word(): refill and shuffle an empty queue, then pop the last
\* entry into current.  The results are the sessions the shuffle can leave.
\* dealt is history: the words popped since the queue was last refilled.
next_word(s) ==
    LET filled == IF s.queue = <<>>
                  THEN {[s EXCEPT !.queue = q, !.dealt = <<>>] :
                            q \in random_shuffle(s.words)}
                  ELSE {s}
    IN  {IF f.queue # <<>>
         THEN [f EXCEPT !.current = f.queue[Len(f.queue)],
                        !.queue = SubSeq(f.queue, 1, Len(f.queue) - 1),
                        !.dealt = Append(@, f.queue[Len(f.queue)])]
         ELSE [f EXCEPT !.current = NONE] : f \in filled}

\* target = current; if not target: next_word()
WithTarget(s) == IF s.current = NONE THEN next_word(s) ELSE {s}

\* Whether the model still lets the session deal a word.
CanDeal(s) == s.queue = <<>> \/ Len(s.dealt) < MaxDealt

\* The version with Hangman, main_20250917160326.py.

\* The slider "Hangman lives" (3..10), at its lowest setting.
lives_setting == 3

\* The keys of the on-screen keyboard the model presses.
Keys == {"a", "n", "t", "z"}

\* The texts typed into "Your spelling".
GuessesMain == {"", "an", " AN", "cat", "it"}

\* init_state() on an empty session, and the slider's value.  page is what
\* the last run drew: "none" before the first run, "play", "won" or "lost"
\* for Hangman, "listen" for Listen & Spell, "info" without a word.
init_state_hangman ==
    [words |-> <<>>, queue |-> <<>>, dealt |-> <<>>, mode |-> "Listen & Spell",
     current |-> NONE, wins |-> 0, rounds |-> 0, guesses |-> {}, lives |-> 6,
     lives_setting |-> lives_setting, page |-> "none"]

\* sidebar_controls(): the radio, Load list, New round, the seeding of the
\* default list.
sidebar_controls_hangman(s, ev, raw, m) ==
    LET s1 == [s EXCEPT !.mode = m]
        s2 == IF ev = "load"
              THEN reset_round([s1 EXCEPT !.words = parse_words_main(raw),
                                          !.queue = <<>>, !.dealt = <<>>])
              ELSE IF ev = "new_round" THEN reset_round(s1) ELSE s1
    IN  IF s2.words = <<>> THEN [s2 EXCEPT !.words = default_list] ELSE s2

\* won = all((c in guesses) or c == '-' for c in target)
Won(s) == \A c \in Chars(s.current) : c \in s.guesses \/ c = "-"

\* render_hangman() once the target is known: the keyboard, then the
\* win/lose check with its buttons.  A button answers True only in a run
\* that draws it, so "Next word" counts only under won, "Try a new word"
\* only under lost.
hangman_round(s, ev, ch) ==
    LET pressed == ev = "key" /\ ch \notin s.guesses /\ s.lives > 0
        s1 == IF pressed
              THEN [s EXCEPT !.guesses = @ \cup {ch},
                             !.lives = IF ch \notin Chars(s.current)
                                       THEN @ - 1 ELSE @]
              ELSE s
        won == Won(s1)
        lost == s1.lives <= 0
    IN  IF won
        THEN LET s2 == [s1 EXCEPT !.wins = @ + 1, !.rounds = @ + 1, !.page = "won"]
             IN  IF ev = "next" THEN next_word(reset_round(s2)) ELSE {s2}
        ELSE IF lost
        THEN LET s2 == [s1 EXCEPT !.rounds = @ + 1, !.page = "lost"]
             IN  IF ev = "new_word" THEN next_word(reset_round(s2)) ELSE {s2}
        ELSE {[s1 EXCEPT !.page = "play"]}

render_hangman(s, ev, ch) ==
    UNION {IF t.current = NONE THEN {[t EXCEPT !.page = "info"]}
           ELSE hangman_round(t, ev, ch) : t \in WithTarget(s)}

\* render_listen_and_spell() of this version: "Check" is a plain button,
\* and the buttons drawn under it exist only in the run of that press.
listen_round_hangman(s, ev, guess) ==
    LET s1 == [s EXCEPT !.page = "listen"]
    IN  IF ev = "check"
        THEN [s1 EXCEPT !.rounds = @ + 1,
                        !.wins = IF Lower(Strip(guess)) = s.current THEN @ + 1 ELSE @]
        ELSE s1

render_listen_and_spell_hangman(s, ev, guess) ==
    {IF t.current = NONE THEN [t EXCEPT !.page = "info"]
     ELSE listen_round_hangman(t, ev, guess) : t \in WithTarget(s)}

\* main(): one run of the script.  ev is the widget that caused it: "none",
\* "mode" (the radio set to m), "load" (with the text raw), "new_round",
\* "say", "key" (the letter ch), "next", "new_word", "hear", "check" (with
\* the text guess).
RunHangman(s, ev, raw, m, ch, guess) ==
    LET s1 == sidebar_controls_hangman(s, ev, raw, m)
    IN  IF s1.mode = "Hangman" THEN render_hangman(s1, ev, ch)
        ELSE render_listen_and_spell_hangman(s1, ev, guess)

InitHangman ==
    /\ script = "main_hangman"
    /\ ss = InitSessionState
    /\ clock = 0
    /\ last = [ev |-> "init", was |-> "-", acc |-> FALSE, hid |-> FALSE]
    /\ tally = [matches |-> 0, mismatches |-> 0]
    /\ mw = init_state_hangman
    /\ mwlast = [ev |-> "init"]

StepHangman(ev, raw, m, ch, guess) ==
    /\ mw.rounds < MaxRounds
    /\ mw' \in RunHangman(mw, ev, raw, m, ch, guess)
    /\ mwlast' = [ev |-> ev]
    /\ UNCHANGED cardvars

\* The first run, and every run no button of the game caused.
RerunHangman == \E raw \in {<<>>} : StepHangman("none", raw, mw.mode, "", "")

SetMode ==
    /\ mw.page # "none"
    /\ \E m \in {"Listen & Spell", "Hangman"} \ {mw.mode} :
          StepHangman("mode", <<>>, m, "", "")

LoadListHangman ==
    /\ mw.page # "none"
    /\ \E raw \in RawTextsMain : StepHangman("load", raw, mw.mode, "", "")

NewRound ==
    /\ mw.page # "none"
    /\ CanDeal(mw)
    /\ StepHangman("new_round", <<>>, mw.mode, "", "")

\* "Say the word", and "Hear it again" on the page of a lost word.
SayTheWord ==
    /\ mw.page \in {"play", "won", "lost", "listen"}
    /\ \E ev \in (IF mw.page = "lost" THEN {"say", "hear"} ELSE {"say"}) :
          StepHangman(ev, <<>>, mw.mode, "", "")

\* A key of the keyboard that the session leaves enabled.
KeyPress ==
    /\ mw.page \in {"play", "won"}
    /\ mw.lives > 0
    /\ \E ch \in Keys \ mw.guesses : StepHangman("key", <<>>, mw.mode, ch, "")

\* "Next word" on the page of a won word.
NextWordClick ==
    /\ mw.page = "won"
    /\ CanDeal(mw)
    /\ StepHangman("next", <<>>, mw.mode, "", "")

\* "Try a new word" on the page of a lost word.
NewWordClick ==
    /\ mw.page = "lost"
    /\ CanDeal(mw)
    /\ StepHangman("new_word", <<>>, mw.mode, "", "")

\* "Check" in Listen & Spell, with the text guess in the box.
CheckClick ==
    /\ mw.page = "listen"
    /\ \E guess \in GuessesMain : StepHangman("check", <<>>, mw.mode, "", guess)

NextHangman ==
    \/ RerunHangman
    \/ SetMode
    \/ LoadListHangman
    \/ NewRound
    \/ SayTheWord
    \/ KeyPress
    \/ NextWordClick
    \/ NewWordClick
    \/ CheckClick

SpecHangman == InitHangman /\ [][NextHangman]_vars

\* The version with Jupiter Points, main_20250917173112.py.

\* init_state() on an empty session.  total_points = -1 stands for None;
\* lives_setting is the default of session_state.get("lives_setting", 6).
\* page is what the last run drew: "none" before the first run, "form" with
\* the form of the mode, "choice" with the form and under it the buttons
\* "Try again" and "Next word", "info" without a word; form_key is the key
\* of the form on the page.  spoken is the target the last step repeated
\* aloud because _repeat_word was set.
init_state_main ==
    [words |-> <<>>, queue |-> <<>>, dealt |-> <<>>, mode |-> "Listen & Spell",
     current |-> NONE, wins |-> 0, rounds |-> 0, guesses |-> {}, lives |-> 6,
     lives_setting |-> 6, total_points |-> -1, last_result |-> NONE,
     listen_nonce |-> 0, jupiter_nonce |-> 0,
     clear_listen |-> FALSE, clear_jupiter |-> FALSE, repeat_word |-> NONE,
     page |-> "none", form_key |-> <<>>, spoken |-> NONE]

\* sidebar_controls(): the radio, Load list, New round, the seeding of the
\* default list.
sidebar_controls(s, ev, raw, m) ==
    LET s1 == [s EXCEPT !.mode = m]
        s2 == IF ev = "load"
              THEN [reset_round([s1 EXCEPT !.words = parse_words_main(raw),
                                           !.queue = <<>>, !.dealt = <<>>])
                        EXCEPT !.total_points = -1]
              ELSE IF ev = "new_round"
              THEN [reset_round(s1) EXCEPT !.total_points = -1]
              ELSE s1
    IN  IF s2.words = <<>> THEN [s2 EXCEPT !.words = default_list] ELSE s2

\* if total_points is None: total_points = len(words)
with_points(s) ==
    IF s.total_points = -1 THEN [s EXCEPT !.total_points = Len(s.words)] ELSE s

\* if total_points > 0: total_points -= 1
lose_point(s) ==
    IF s.total_points > 0 THEN [s EXCEPT !.total_points = @ - 1] ELSE s

\* if st.session_state.get("_repeat_word"): say_word_repeat(target, ...);
\* the flags are popped.
repeat_if_flagged(s) ==
    IF s.repeat_word # NONE
    THEN [s EXCEPT !.spoken = s.current, !.repeat_word = NONE] ELSE s

RECURSIVE RunMain(_, _, _, _, _)

\* render_listen_and_spell() once the target is known (lines 569-678).  The
\* form answers True only for a press on the form of the same key; "Try
\* again" and "Next word" are drawn, and so can answer, only inside the
\* branch of a wrong submission.  st.rerun() runs the script once more.
listen_round(s, ev, guess, page, form_key) ==
    LET target == s.current
        s1 == repeat_if_flagged(s)
        s2 == IF s1.clear_listen
              THEN [s1 EXCEPT !.listen_nonce = @ + 1, !.clear_listen = FALSE]
              ELSE s1
        key == <<"listen", s2.listen_nonce>>
        submitted == ev = "submit" /\ page \in {"form", "choice"} /\ form_key = key
        drawn == [s2 EXCEPT !.page = "form", !.form_key = key]
    IN  IF ~submitted THEN {drawn}
        ELSE LET s3 == [drawn EXCEPT !.rounds = @ + 1]
             IN  IF Lower(Strip(guess)) = target
                 THEN LET s4 == [with_points([s3 EXCEPT !.wins = @ + 1])
                                     EXCEPT !.last_result = "kept",
                                            !.clear_listen = TRUE]
                      IN  UNION {RunMain(t, "none", <<>>, t.mode, "") :
                                    t \in next_word(reset_round(s4))}
                 ELSE LET s4 == [lose_point(with_points(
                                     [s3 EXCEPT !.last_result = "lost"]))
                                     EXCEPT !.clear_listen = TRUE]
                      IN  IF ev = "try_again"
                          THEN RunMain([reset_round([s4 EXCEPT !.repeat_word = target])
                                            EXCEPT !.current = target],
                                       "none", <<>>, s4.mode, "")
                          ELSE IF ev = "next_word"
                          THEN UNION {RunMain(t, "none", <<>>, t.mode, "") :
                                         t \in next_word(reset_round(s4))}
                          ELSE {[s4 EXCEPT !.page = "choice"]}

render_listen_and_spell(s, ev, guess, page, form_key) ==
    UNION {IF t.current = NONE THEN {[t EXCEPT !.page = "info"]}
           ELSE listen_round(t, ev, guess, page, form_key) : t \in WithTarget(s)}

\* render_jupiter_points() once the target is known (lines 697-798).
jupiter_round(s, ev, guess, page, form_key) ==
    LET target == s.current
        s1 == repeat_if_flagged(s)
        s2 == IF s1.clear_jupiter
              THEN [s1 EXCEPT !.jupiter_nonce = @ + 1, !.clear_jupiter = FALSE]
              ELSE s1
        key == <<"jupiter", s2.jupiter_nonce>>
        submitted == ev = "submit" /\ page \in {"form", "choice"} /\ form_key = key
        drawn == [s2 EXCEPT !.page = "form", !.form_key = key]
    IN  IF ~submitted THEN {drawn}
        ELSE LET s3 == [drawn EXCEPT !.rounds = @ + 1]
             IN  IF Lower(Strip(guess)) = target
                 THEN LET s4 == [s3 EXCEPT !.wins = @ + 1,
                                           !.last_result = "kept",
                                           !.clear_jupiter = TRUE]
                      IN  UNION {RunMain(t, "none", <<>>, t.mode, "") :
                                    t \in next_word(reset_round(s4))}
                 ELSE LET s4 == [lose_point(s3) EXCEPT !.last_result = "lost"]
                      IN  IF ev = "try_again"
                          THEN RunMain([reset_round([s4 EXCEPT !.clear_jupiter = TRUE,
                                                               !.repeat_word = target])
                                            EXCEPT !.current = target],
                                       "none", <<>>, s4.mode, "")
                          ELSE IF ev = "next_word"
                          THEN UNION {RunMain(t, "none", <<>>, t.mode, "") :
                                         t \in next_word(reset_round(
                                                   [s4 EXCEPT !.clear_jupiter = TRUE]))}
                          ELSE {[s4 EXCEPT !.page = "choice"]}

render_jupiter_points(s, ev, guess, page, form_key) ==
    UNION {IF t.current = NONE THEN {[t EXCEPT !.page = "info"]}
           ELSE jupiter_round(t, ev, guess, page, form_key) :
              t \in WithTarget(with_points(s))}

\* main(): one run of the script, with the reruns it asks for.  ev is the
\* widget that caused it: "none", "mode" (the radio set to m), "load" (with
\* the text raw), "new_round", "submit" (with the text guess), "try_again",
\* "next_word".  The results are the sessions the shuffle can leave.
RunMain(s, ev, raw, m, guess) ==
    LET s1 == sidebar_controls(s, ev, raw, m)
        s2 == IF s1.last_result \in {"kept", "lost"}
              THEN [s1 EXCEPT !.last_result = NONE] ELSE s1
    IN  IF s2.mode = "Jupiter Points"
        THEN render_jupiter_points(s2, ev, guess, s.page, s.form_key)
        ELSE render_listen_and_spell(s2, ev, guess, s.page, s.form_key)

InitMain ==
    /\ script = "main"
    /\ ss = InitSessionState
    /\ clock = 0
    /\ last = [ev |-> "init", was |-> "-", acc |-> FALSE, hid |-> FALSE]
    /\ tally = [matches |-> 0, mismatches |-> 0]
    /\ mw = init_state_main
    /\ mwlast = [ev |-> "init"]

StepMain(ev, raw, m, guess) ==
    /\ mw' \in RunMain([mw EXCEPT !.spoken = NONE], ev, raw, m, guess)
    /\ mwlast' = [ev |-> ev]
    /\ UNCHANGED cardvars

\* The first run, and every run no button of the game caused.
RerunMain == \E raw \in {<<>>} : StepMain("none", raw, mw.mode, "")

SetModeMain ==
    /\ mw.page # "none"
    /\ \E m \in {"Listen & Spell", "Jupiter Points"} \ {mw.mode} :
          StepMain("mode", <<>>, m, "")

LoadListMain ==
    /\ mw.page # "none"
    /\ \E raw \in RawTextsMain : StepMain("load", raw, mw.mode, "")

NewRoundMain ==
    /\ mw.page # "none"
    /\ CanDeal(mw)
    /\ StepMain("new_round", <<>>, mw.mode, "")

\* A press of "Check" on the form the page shows, with the text guess.
SubmitMain ==
    /\ mw.page \in {"form", "choice"}
    /\ mw.rounds < MaxRounds
    /\ CanDeal(mw)
    /\ \E guess \in GuessesMain : StepMain("submit", <<>>, mw.mode, guess)

\* A press of "Try again" under the message of a wrong submission.
TryAgainClick ==
    /\ mw.page = "choice"
    /\ StepMain("try_again", <<>>, mw.mode, "")

\* A press of "Next word" under the message of a wrong submission.
NextWordMainClick ==
    /\ mw.page = "choice"
    /\ CanDeal(mw)
    /\ StepMain("next_word", <<>>, mw.mode, "")

NextMain ==
    \/ RerunMain
    \/ SetModeMain
    \/ LoadListMain
    \/ NewRoundMain
    \/ SubmitMain
    \/ TryAgainClick
    \/ NextWordMainClick

SpecMain == InitMain /\ [][NextMain]_vars

----------------------------------------------------------------------------
(* The round state in the words of the specification.                      *)

Deck == ss.deck
RevealSet == ss.revealed
MatchedSet == ss.matched
MoveCount == ss.moves
Finished == ss.finished
\* 0 stands for "none".
PendingHideDeadline ==
    IF script = "memory_match" THEN ss.pending_hide_at ELSE ss.hide_at

\* How often sym occurs in deck d.
Count(d, sym) == Cardinality({n \in 1..Len(d) : d[n] = sym})

\* A step that does not deal a new deck.
SameRound == last'.ev \in {"none", "peek", "card", "time"}

\* The step is a run caused by a click on the card at position j.
Flip(j) == last'.ev = "card" /\ Step("card", j, NoDeck)

----------------------------------------------------------------------------
(* Claims.                                                                 *)

\* C1: every deck new_game deals has length 2 * pairs and holds every one of
\* its symbols exactly twice.
C1_EachSymbolTwice ==
    Deck # <<>> =>
        /\ Len(Deck) = 2 * pairs
        /\ \A n \in 1..Len(Deck) : Count(Deck, Deck[n]) = 2

\* C2: RevealSet never holds more than two positions.
C2_AtMostTwoRevealed == Cardinality(RevealSet) <= 2

C2_Witness ==
    last.ev = "card" /\ last.acc /\ Cardinality(RevealSet) = 2

\* C3: no position is revealed and matched at once.
C3_RevealedMatchedDisjoint == RevealSet \cap MatchedSet = {}

C3_Witness ==
    last.ev = "card" /\ last.acc /\ RevealSet # {} /\ MatchedSet # {}

\* C4: with position i alone in RevealSet and no hide pending, a flip of a
\* hidden position j that carries the symbol of i leaves i and j matched,
\* RevealSet empty and no deadline set.
C4_MatchCorrect ==
    [][\A i, j \in Positions(ss) :
          ( /\ RevealSet = {i} /\ PendingHideDeadline = 0
            /\ j # i /\ j \notin MatchedSet
            /\ PyGet(Deck, i) = PyGet(Deck, j)
            /\ Flip(j) )
          => ( /\ {i, j} \subseteq MatchedSet'
               /\ RevealSet' = {}
               /\ PendingHideDeadline' = 0 )]_vars

C4_Witness ==
    /\ last.ev = "card" /\ last.acc /\ last.was = "hidden"
    /\ RevealSet = {} /\ MatchedSet # {} /\ PendingHideDeadline = 0

\* C5: a flip of hidden j whose symbol differs from that of the revealed i
\* leaves RevealSet = {i, j} with a deadline set; while the deadline is
\* unexpired no flip, tick or peek changes RevealSet, the deadline or
\* MatchedSet; the first run at or after the deadline clears the deadline and
\* hides the pair (RevealSet is empty after a tick, and holds at most the
\* card clicked after a click), MatchedSet unchanged.
C5_MismatchCorrect ==
    [][/\ \A i, j \in Positions(ss) :
            ( /\ RevealSet = {i} /\ j # i /\ j \notin MatchedSet
              /\ PyGet(Deck, i) # PyGet(Deck, j)
              /\ Flip(j) )
            => ( /\ RevealSet' = {i, j}
                 /\ PendingHideDeadline' > clock
                 /\ MatchedSet' = MatchedSet )
       /\ ( /\ SameRound
            /\ Cardinality(RevealSet) = 2
            /\ PendingHideDeadline # 0 /\ clock < PendingHideDeadline )
          => ( /\ RevealSet' = RevealSet
               /\ PendingHideDeadline' = PendingHideDeadline
               /\ MatchedSet' = MatchedSet )
       /\ ( /\ last'.ev \in {"none", "peek", "card"}
            /\ Cardinality(RevealSet) = 2
            /\ PendingHideDeadline # 0 /\ clock >= PendingHideDeadline )
          => ( /\ PendingHideDeadline' = 0
               /\ MatchedSet' = MatchedSet
               /\ last'.ev # "card" => RevealSet' = {}
               /\ \A j \in Positions(ss) : Flip(j) => RevealSet' \subseteq {j} )
      ]_vars

C5_Witness ==
    /\ last.ev = "none" /\ last.hid
    /\ RevealSet = {} /\ PendingHideDeadline = 0
    /\ tally.mismatches >= 1 /\ MatchedSet # {}

\* C6: once a deck is dealt, finished holds exactly when every position is
\* matched, which is exactly when pairs matches have been made.
C6_FinishedIffAllMatched ==
    Deck # <<>> =>
        /\ Finished <=> (MatchedSet = Positions(ss))
        /\ Finished <=> (tally.matches = pairs)

C6_Witness == Finished /\ last.ev = "card" /\ last.acc

C8_IgnoredFlipIsNoOp ==
    [][\A j \in Positions(ss) :
          LET pre == BeforeClick(ss, clock)
          IN  ( /\ (j \in pre.matched \/ j \in pre.revealed \/ pre.finished)
                /\ Flip(j) )
              => IF PendingHideDeadline # 0 /\ clock >= PendingHideDeadline
                 THEN /\ RevealSet' = {} /\ PendingHideDeadline' = 0
                      /\ ss'.lock = FALSE
                      /\ Deck' = Deck /\ MatchedSet' = MatchedSet
                      /\ MoveCount' = MoveCount /\ Finished' = Finished
                      /\ ss'.peek_until = ss.peek_until
                 ELSE ss' = ss]_vars

C8_Witness ==
    /\ last.ev = "card" /\ ~last.acc /\ last.was = "matched"
    /\ RevealSet # {} /\ ~Finished

\* C9: a run that called new_game() ends with RevealSet and MatchedSet
\* empty, MoveCount 0, no deadline (pending_hide_at and _hide_at 0, lock
\* False) and finished False.
C9_NewGameResets ==
    last.ev \in {"new_game", "play_again"} =>
        /\ RevealSet = {} /\ MatchedSet = {} /\ MoveCount = 0
        /\ ss.pending_hide_at = 0 /\ ss.hide_at = 0 /\ ss.lock = FALSE
        /\ ~Finished

\* C10: MoveCount is the number of matches plus the number of mismatches
\* seen since the deck was dealt: it grows by one in the flip that brings
\* RevealSet to two positions and in no other step.
C10_MovesCountComparisons ==
    MoveCount = tally.matches + tally.mismatches

C10_Witness ==
    /\ last.ev = "card" /\ last.acc /\ Cardinality(RevealSet) = 1
    /\ tally.matches >= 1 /\ tally.mismatches >= 1

\* C11: a deadline is set exactly while RevealSet holds two positions, and
\* those two positions carry different symbols; no deadline is set while
\* RevealSet holds no or one position.
C11_DeadlineIffMismatchShown ==
    /\ (PendingHideDeadline # 0) <=> (Cardinality(RevealSet) = 2)
    /\ \A i, j \in RevealSet : i # j => PyGet(Deck, i) # PyGet(Deck, j)

\* C12: a single revealed first card of a pair stays revealed through every
\* run that neither flips a card nor starts a new round, and through the
\* passing of time: no hide left over from an earlier round removes it.
C12_FirstCardStaysRevealed ==
    [][(Cardinality(RevealSet) = 1 /\ last'.ev \in {"none", "peek", "time"})
          => RevealSet' = RevealSet]_vars

\* C13: a new round replaces the whole round state together, so no state
\* shows a field of an earlier round next to the new deck: a deadline that is
\* set, a revealed pair, a matched position, a counted move and a finished
\* flag all come from comparisons made since the deck was dealt.
C13_NoOldRoundField ==
    /\ PendingHideDeadline # 0 => tally.mismatches >= 1
    /\ Cardinality(RevealSet) = 2 => tally.mismatches >= 1
    /\ MatchedSet # {} => tally.matches >= 1
    /\ MoveCount # 0 => tally.matches + tally.mismatches >= 1
    /\ Finished => tally.matches >= 1

\* C14: with no peek active, visible_face of a position is the deck symbol
\* at that position exactly when the position is revealed or matched, and
\* the hidden placeholder otherwise.
C14_VisibleFace ==
    ~peeking(ss, clock) =>
        \A i \in Positions(ss) :
            /\ (visible_face(ss, i, clock) = PyGet(Deck, i))
                   <=> (i \in RevealSet \cup MatchedSet)
            /\ (visible_face(ss, i, clock) = HIDDEN)
                   <=> (i \notin RevealSet \cup MatchedSet)

C14_Witness ==
    /\ ss.peek_until # 0 /\ ~peeking(ss, clock)
    /\ RevealSet # {} /\ MatchedSet # {}
    /\ \E i \in Positions(ss) : visible_face(ss, i, clock) = HIDDEN

\* C15: the run that starts a peek, and the run that finds a peek over,
\* leave Deck, MatchedSet, MoveCount and the finished flag as they were, and
\* leave RevealSet and the deadline as they were but for the hide of an
\* expired mismatch the run's hide check does; after the run that starts a
\* peek visible_face shows the deck symbol at every position.
C15_PeekLeavesRound ==
    [][( /\ Deck # <<>>
         /\ \/ last'.ev = "peek"
            \/ last'.ev = "none" /\ ss.peek_until # 0 /\ ~peeking(ss, clock) )
       => ( /\ Deck' = Deck /\ MatchedSet' = MatchedSet
            /\ MoveCount' = MoveCount /\ Finished' = Finished
            /\ IF PendingHideDeadline # 0 /\ clock >= PendingHideDeadline
               THEN RevealSet' = {} /\ PendingHideDeadline' = 0
               ELSE /\ RevealSet' = RevealSet
                    /\ PendingHideDeadline' = PendingHideDeadline
            /\ last'.ev = "peek" =>
                   \A i \in Positions(ss) :
                       visible_face(ss', i, clock) = PyGet(Deck, i) )]_vars

C15_Witness ==
    /\ last.ev = "none" /\ ss.peek_until # 0 /\ ~peeking(ss, clock)
    /\ RevealSet # {} /\ MatchedSet # {}

\* C16: once dealt, the deck changes in no flip, tick, peek or settings
\* rerun and not with the passing of time; only a run that calls new_game()
\* replaces it.
C16_DeckFixedInRound ==
    [][/\ (Deck # <<>> /\ SameRound) => Deck' = Deck
       /\ Deck' # Deck =>
              (Deck = <<>> \/ last'.ev \in {"new_game", "play_again"})]_vars

C16_Witness ==
    /\ last.ev = "peek" /\ Deck # <<>>
    /\ tally.matches >= 1 /\ tally.mismatches >= 1

\* C17: within a round MatchedSet only grows: every flip, tick and peek
\* step and the passing of time leave every matched position matched; a
\* position leaves MatchedSet only in a run that calls new_game().
C17_MatchedOnlyGrows ==
    [][/\ SameRound => MatchedSet \subseteq MatchedSet'
       /\ ~(MatchedSet \subseteq MatchedSet') =>
              last'.ev \in {"new_game", "play_again"}]_vars

C17_Witness ==
    last.ev = "card" /\ last.hid /\ MatchedSet # {}

\* C18: on_card_click with a position outside 0..len(deck)-1 raises no
\* error and changes no key of the session, as a first and as a second flip.
C18_OutOfRangeFlipIsNoOp ==
    [][last'.ev = "stray" => (ss' = ss /\ last'.was # "IndexError")]_vars

C27_MatchedIsPairs ==
    [][/\ Cardinality(MatchedSet') = 2 * tally'.matches
       /\ \A i \in MatchedSet' :
              \E j \in MatchedSet' \ {i} : PyGet(Deck', i) = PyGet(Deck', j)
       /\ (SameRound /\ MatchedSet' # MatchedSet)
          => LET new == MatchedSet' \ MatchedSet
             IN  /\ last'.ev = "card"
                 /\ Cardinality(new) = 2
                 /\ RevealSet \subseteq new
                 /\ \A i, j \in new : PyGet(Deck, i) = PyGet(Deck, j)]_vars

C27_Witness ==
    /\ last.ev = "card" /\ last.acc
    /\ Cardinality(MatchedSet) = 4 /\ tally.mismatches >= 1

\* C25: a flip of a hidden, unmatched position that arrives when the
\* deadline of the revealed mismatch has passed but is still set is not
\* dropped: the run hides the pair, clears the deadline and leaves the
\* flipped position as the only revealed one.
C25_LateFlipIsAccepted ==
    [][\A j \in Positions(ss) :
          ( /\ Cardinality(RevealSet) = 2
            /\ PendingHideDeadline # 0 /\ clock >= PendingHideDeadline
            /\ j \notin RevealSet /\ j \notin MatchedSet /\ ~Finished
            /\ Flip(j) )
          => (RevealSet' = {j} /\ PendingHideDeadline' = 0)]_vars

\* C24: in match.py, once _hide_at is set the script's own reruns lead,
\* as time advances, to a state with revealed empty, lock False and _hide_at
\* 0, in which a flip of any face-down card is accepted unless the round is
\* finished.
C24_MismatchIsHidden ==
    (ss.hide_at # 0) ~>
        ( /\ ss.revealed = {} /\ ss.lock = FALSE /\ ss.hide_at = 0
          /\ ~Finished =>
                 \A j \in Positions(ss) \ MatchedSet :
                     on_card_click_match(ss, j, clock) # ss )

C24_Witness ==
    /\ script = "match" /\ last.ev = "none" /\ last.hid
    /\ ss.revealed = {} /\ ss.lock = FALSE /\ ss.hide_at = 0
    /\ tally.mismatches >= 1

\* C26: an unfinished round is never stuck: either a flip of some face-down
\* card is accepted, or a deadline is set and the hide check run at the
\* deadline clears it, releases the lock and leaves a state that accepts a
\* flip; the lock is never set without a deadline.
C26_NeverStuck ==
    /\ ss.lock => ss.hide_at # 0
    /\ (Deck # <<>> /\ ~Finished) =>
           \/ CanFlip(ss, clock)
           \/ /\ PendingHideDeadline # 0
              /\ LET s == HideCheck(ss, PendingHideDeadline)
                 IN  /\ s.pending_hide_at = 0 /\ s.hide_at = 0 /\ s.lock = FALSE
                     /\ CanFlip(s, clock)

C26_Witness ==
    /\ last.ev = "card" /\ ~last.acc /\ last.was = "hidden"
    /\ ~Finished /\ ~CanFlip(ss, clock) /\ PendingHideDeadline # 0
    /\ MatchedSet # {}

----------------------------------------------------------------------------
(* The spelling game in its simplified mode (SpecSimple).                  *)

\* C21: the learner stays on a word until it is spelled correctly: a
\* submission that is not correct leaves idx unchanged, and idx moves on by
\* one only with a correct submission.
C21_WrongTryStaysOnWord ==
    [][ /\ (mwlast'.ev = "submit" /\ ~mwlast'.right => mw'.idx = mw.idx)
        /\ (mw'.idx = mw.idx + 1 => mwlast'.ev = "submit" /\ mwlast'.right)
      ]_vars

\* C22: points never go above the starting total: in every reachable state
\* 0 <= current_points <= total_points and total_points = len(words).
C22_PointsWithinTotal ==
    /\ 0 <= mw.current_points
    /\ mw.current_points <= mw.total_points
    /\ mw.total_points = Len(mw.words)

\* A loaded list spelled right to the end: the points stand at the total.
C22_Witness ==
    /\ mw.words # DEFAULT_WORDS_SIMPLE
    /\ mw.total_points > 1
    /\ mw.current_points = mw.total_points
    /\ mwlast.ev = "submit"

----------------------------------------------------------------------------
(* main.py with Hangman (SpecHangman).                                     *)

\* The Hangman page of the session shows a word that is won or lost.
Decided(s) ==
    /\ s.mode = "Hangman"
    /\ s.page \in {"won", "lost"}
    /\ s.current # NONE
    /\ (Won(s) \/ s.lives <= 0)

\* C23: score and attempts are counted once per word: the run that decides
\* a word (won or lost) adds 1 to rounds, and 1 to wins if it is won; the
\* runs that follow while the decided word is shown add nothing.
C23_CountedOncePerWord ==
    [][ /\ (Decided(mw) /\ mw'.mode = "Hangman" =>
                mw'.rounds = mw.rounds /\ mw'.wins = mw.wins)
        /\ (mwlast'.ev = "key" /\ ~Decided(mw) /\ Decided(mw') =>
                /\ mw'.rounds = mw.rounds + 1
                /\ mw'.wins = mw.wins + (IF Won(mw') THEN 1 ELSE 0))
      ]_vars

----------------------------------------------------------------------------
(* main.py with Jupiter Points (SpecMain).                                 *)

\* The entries of a list with their multiplicities.
BagOf(q) == [w \in Entries(q) |-> Cardinality({n \in 1..Len(q) : q[n] = w})]

\* C29: the queue deals every entry of the list once before any repeats:
\* the words dealt since the queue was filled, together with those still
\* queued, are exactly the entries of words, so the len(words) calls of
\* next_word() that empty the queue make each entry current once; current
\* is None or an entry of words, and the queue holds entries of words only.
C29_QueueDealsEachWordOnce ==
    /\ mw.current = NONE \/ mw.current \in Entries(mw.words)
    /\ Entries(mw.queue) \subseteq Entries(mw.words)
    /\ \/ (mw.queue = <<>> /\ mw.dealt = <<>>)
       \/ BagOf(mw.queue \o mw.dealt) = BagOf(mw.words)
    /\ mw.dealt # <<>> => mw.current \in {NONE, mw.dealt[Len(mw.dealt)]}

\* A loaded list of two different words, dealt to its end.
C29_Witness ==
    /\ Len(mw.words) = 2
    /\ mw.words[1] # mw.words[2]
    /\ mw.queue = <<>>
    /\ Len(mw.dealt) = 2
    /\ mw.current = mw.dealt[2]

\* The word next_word() makes current from session s.
NextQueued(s) ==
    IF s.queue # <<>> THEN {s.queue[Len(s.queue)]} ELSE Entries(s.words)

\* C30: after a wrong submission a press of "Next word" runs reset_round()
\* and next_word(), so current becomes the next queued word; a press of
\* "Try again" keeps current and has the word repeated (the repeat flags).
C30_TryAgainOrNextWord ==
    [][ /\ (mwlast'.ev = "next_word" =>
               /\ mw'.current \in NextQueued(mw)
               /\ mw'.dealt # mw.dealt)
        /\ (mwlast'.ev = "try_again" =>
               /\ mw'.current = mw.current
               /\ mw'.spoken = mw.current)
      ]_vars

====
